---------------------------- MODULE Spec2Model ----------------------------
(***************************************************************************)
(* Client side of the chunked store / read protocol spoken to the secure   *)
(* element (offline-client/SE/secure_chip_client.py): the APDU frame       *)
(* builder, the INIT -> CONTINUE* -> FINALIZE loops of store_data and      *)
(* read_data, and the card they talk to (Spec); the command frames for     *)
(* usernames and addresses of many lengths (SpecFrames); and the           *)
(* fixed-length client offline-client/secured/test.py with its one-command *)
(* store, read and delete (SpecFixed).                                     *)
(*                                                                         *)
(* Bytes are naturals 0..255, strings are sequences of Unicode code        *)
(* points, Python lists and bytes objects are sequences.                   *)
(***************************************************************************)
EXTENDS Integers, Sequences, FiniteSets, TLC

(***************************************************************************)
(* Bound of the model.  The message lengths tried are the multiples        *)
(* 0..MaxChunks of the chunk size, each with its two neighbours.           *)
(***************************************************************************)
MaxChunks == 2

\* The short messages of the fixed-length client have at most MaxShort
\* characters.
MaxShort == 2

\* Usernames and addresses of up to MaxFieldLength characters are tried
\* when the command frames are looked at on their own.
MaxFieldLength == 256

(***************************************************************************)
(* Program constants (secure_chip_client.py, lines 39-51 and 193).         *)
(***************************************************************************)
CLA == 128
INS_STORE_DATA_INIT == 16
INS_STORE_DATA_CONTINUE == 17
INS_STORE_DATA_FINALIZE == 18
INS_READ_DATA_INIT == 32
INS_READ_DATA_CONTINUE == 33
INS_READ_DATA_FINALIZE == 34
SW_SUCCESS == <<144, 0>>
SW_MORE_DATA == <<97, 0>>
chunk_size == 200

\* The status send_apdu reports when transmit raises (line 162): 6F 00.
SW_TRANSMIT_ERROR == <<111, 0>>

\* "le is None" / "data is None" of send_apdu.
NoLe == -1

(***************************************************************************)
(* str.encode('utf-8') and bytes.decode('utf-8') (lines 178-180, 229-230,  *)
(* 282).  A string is a sequence of code points.                           *)
(***************************************************************************)
EncodeCodePoint(cp) ==
    IF cp < 128 THEN <<cp>>
    ELSE IF cp < 2048 THEN <<192 + (cp \div 64), 128 + (cp % 64)>>
    ELSE IF cp < 65536 THEN
        <<224 + (cp \div 4096), 128 + ((cp \div 64) % 64), 128 + (cp % 64)>>
    ELSE <<240 + (cp \div 262144), 128 + ((cp \div 4096) % 64),
           128 + ((cp \div 64) % 64), 128 + (cp % 64)>>

\* The bytes of characters lo..hi of s (halving keeps the recursion shallow).
RECURSIVE EncodeRange(_, _, _)
EncodeRange(s, lo, hi) ==
    IF lo > hi THEN <<>>
    ELSE IF lo = hi THEN EncodeCodePoint(s[lo])
    ELSE LET mid == (lo + hi) \div 2
         IN EncodeRange(s, lo, mid) \o EncodeRange(s, mid + 1, hi)

encode_utf8(s) == EncodeRange(s, 1, Len(s))

IsCont(b) == b >= 128 /\ b < 192

\* Number of bytes the character starting with lead byte b takes; 0 when b
\* cannot start a character.
LeadWidth(b) ==
    IF b < 128 THEN 1
    ELSE IF b >= 194 /\ b < 224 THEN 2
    ELSE IF b >= 224 /\ b < 240 THEN 3
    ELSE IF b >= 240 /\ b < 245 THEN 4
    ELSE 0

\* The code point of the w-byte character at position k of bs, or -1 when
\* the bytes there are no well-formed character (truncated, bad continuation
\* byte, overlong form, surrogate, beyond U+10FFFF).
CharAt(bs, k, w) ==
    IF w = 0 \/ k + w - 1 > Len(bs) THEN -1
    ELSE IF w = 1 THEN bs[k]
    ELSE IF \E j \in 1..(w - 1) : ~IsCont(bs[k + j]) THEN -1
    ELSE IF w = 2 THEN (bs[k] - 192) * 64 + (bs[k + 1] - 128)
    ELSE IF w = 3 THEN
        LET cp == (bs[k] - 224) * 4096 + (bs[k + 1] - 128) * 64 + (bs[k + 2] - 128)
        IN IF cp < 2048 \/ (cp >= 55296 /\ cp < 57344) THEN -1 ELSE cp
    ELSE
        LET cp == (bs[k] - 240) * 262144 + (bs[k + 1] - 128) * 4096
                  + (bs[k + 2] - 128) * 64 + (bs[k + 3] - 128)
        IN IF cp < 65536 \/ cp > 1114111 THEN -1 ELSE cp

DecodeError == <<-1>>

\* The string bytes lo..hi of bs decode to, or DecodeError when decode raises
\* UnicodeDecodeError.  A range too short to hold two characters is one
\* character; a longer one is cut at a byte that starts a character, near
\* its middle (four continuation bytes in a row are malformed).
RECURSIVE DecodeRange(_, _, _)
DecodeRange(bs, lo, hi) ==
    IF lo > hi THEN <<>>
    ELSE LET w == LeadWidth(bs[lo]) IN
         IF hi - lo < 4 /\ (w = 0 \/ lo + w - 1 >= hi)
         THEN IF w # 0 /\ lo + w - 1 = hi /\ CharAt(bs, lo, w) # -1
              THEN <<CharAt(bs, lo, w)>>
              ELSE DecodeError
         ELSE LET mid == (lo + hi) \div 2
                  from == IF lo + 1 > mid - 3 THEN lo + 1 ELSE mid - 3
                  to == IF hi < mid + 4 THEN hi ELSE mid + 4
                  cuts == {k \in from..to : ~IsCont(bs[k])}
              IN IF cuts = {} THEN DecodeError
                 ELSE LET cut == CHOOSE k \in cuts : TRUE
                          left == DecodeRange(bs, lo, cut - 1)
                          right == DecodeRange(bs, cut, hi)
                      IN IF left = DecodeError \/ right = DecodeError
                         THEN DecodeError
                         ELSE left \o right

decode_utf8(bs) == DecodeRange(bs, 1, Len(bs))

(***************************************************************************)
(* TEST_DATA (lines 54-65): two records.  The usernames and addresses are  *)
(* the program's.  The messages are inputs of the model.  Alice's is given *)
(* by the n bytes of its encoding: ASCII letters, with a three-byte        *)
(* character across every multiple of the chunk size the message passes    *)
(* (bytes 199-201, 399-401, ...) and a two-byte character across every     *)
(* multiple of the card's read size (bytes 240-241, ...).  Bob's is short. *)
(***************************************************************************)
AliceUsername == <<97, 108, 105, 99, 101, 49, 50, 51>>
AliceAddress ==
    <<49, 65, 49, 122, 80, 49, 101, 80, 53, 81, 71, 101, 102, 105, 50, 68, 77,
      80, 84, 102, 84, 76, 53, 83, 76, 109, 118, 55, 68, 105, 118, 102, 78, 97>>
BobUsername == <<98, 111, 98, 52, 53, 54>>
BobAddress ==
    <<51, 74, 57, 56, 116, 49, 87, 112, 69, 90, 55, 51, 67, 78, 109, 81, 118,
      105, 101, 99, 114, 110, 121, 105, 87, 114, 110, 113, 82, 104, 87, 78, 76,
      121>>

AliceBytes(n) ==
    [k \in 1..n |->
        IF k >= 199 /\ (k + 1) % 200 \in {0, 1, 2}
              /\ 200 * ((k + 1) \div 200) + 1 <= n
        THEN <<232, 191, 153>>[((k + 1) % 200) + 1]
        ELSE IF k >= 240 /\ k % 240 \in {0, 1} /\ (k \div 240) % 5 # 0
              /\ 240 * (k \div 240) + 1 <= n
        THEN <<195, 169>>[(k % 240) + 1]
        ELSE 65 + (k % 26)]

\* "这是Bob"
BobMessage == <<36825, 26159, 66, 111, 98>>

TEST_DATA(n) ==
    << [username |-> AliceUsername, address |-> AliceAddress,
        message |-> decode_utf8(AliceBytes(n))],
       [username |-> BobUsername, address |-> BobAddress,
        message |-> BobMessage] >>

\* The message lengths tried.
BodyLengths ==
    { c * chunk_size + d : c \in 0..MaxChunks, d \in {-1, 0, 1} } \cap Nat


Min(a, b) == IF a < b THEN a ELSE b

(***************************************************************************)
(* send_apdu, lines 141-153: the command frame.  data is <<>> for both     *)
(* None and the empty list (the test is "if data:"), le is NoLe for None.  *)
(***************************************************************************)
\* A frame builder that leaves out the zero Lc before Le.
apdu_command_NoLc(cla, ins, p1, p2, data, le) ==
    <<cla, ins, p1, p2>>
      \o (IF data # <<>> THEN <<Len(data)>> \o data ELSE <<>>)
      \o (IF le # NoLe THEN <<le>> ELSE <<>>)

apdu_command(cla, ins, p1, p2, data, le) ==
    <<cla, ins, p1, p2>>
      \o (IF data # <<>> THEN <<Len(data)>> \o data
          ELSE IF le # NoLe THEN <<0>>
          ELSE <<>>)
      \o (IF le # NoLe THEN <<le>> ELSE <<>>)

\* init_data of store_data (line 183).
store_init_data(username_bytes, address_bytes) ==
    <<Len(username_bytes)>> \o username_bytes
      \o <<Len(address_bytes)>> \o address_bytes

\* init_data of read_data (lines 239-241).
read_init_data(username_bytes, address_bytes, sig) ==
    <<Len(username_bytes)>> \o username_bytes
      \o <<Len(address_bytes)>> \o address_bytes
      \o <<Len(sig)>> \o sig

\* data_to_sign of read_data (line 233).
data_to_sign(username_bytes, address_bytes) == username_bytes \o address_bytes

\* message_length of read_data (line 255).
parse_message_length(response) == response[1] * 256 + response[2]

(***************************************************************************)
(* The signature provider (the ecdsa package behind PRIVATE_KEY.sign,      *)
(* line 311): a NIST P-192 signature is 48 bytes, fixed by the key, the    *)
(* signed bytes and the random nonce the library draws for each signature. *)
(***************************************************************************)
SignatureLength == 48
KeyIds == {1, 2}
Nonces == {1, 2}

RECURSIVE DigestRange(_, _, _)
DigestRange(data, lo, hi) ==
    IF lo > hi THEN 0
    ELSE IF lo = hi THEN (lo * data[lo]) % 251
    ELSE LET mid == (lo + hi) \div 2
         IN (DigestRange(data, lo, mid) + DigestRange(data, mid + 1, hi)) % 251

Sign(key, data, nonce) ==
    LET digest == DigestRange(data, 1, Len(data))
    IN [j \in 1..SignatureLength |->
            (101 * key + 59 * nonce + digest + 7 * j) % 256]

Verify(key, data, sig) == \E nonce \in Nonces : sig = Sign(key, data, nonce)

(***************************************************************************)
(* The card.  devStore is the set of committed records, devSess the        *)
(* transfer in progress.  The applet is not among the Python sources; it   *)
(* is modelled from the protocol description: INIT opens a transfer,       *)
(* CONTINUE moves one chunk, FINALIZE closes it; a read is served only for *)
(* an existing record and a signature that verifies under the card's key;  *)
(* after the last chunk of a read the card may already have closed the     *)
(* transfer by itself (the comment at line 275).                           *)
(***************************************************************************)
DeviceKey == 1
DeviceMaxRead == 240
\* The two records of run_tests (secured/test.py).
FixedKeys == {1, 2}
SW_CONDITIONS_NOT_SATISFIED == <<105, 133>>
RejectSW == {<<105, 130>>, <<106, 130>>}

NoSess == [kind |-> "none", key |-> <<>>, buf |-> <<>>, off |-> 0]

CmdData(cmd) == IF Len(cmd) >= 5 THEN SubSeq(cmd, 6, 5 + cmd[5]) ELSE <<>>

\* The key fields (and the signature, when one follows) of an INIT payload.
ParseInit(p) ==
    LET lu == p[1]
        la == p[lu + 2]
        rest == SubSeq(p, lu + la + 3, Len(p))
    IN [key |-> <<SubSeq(p, 2, lu + 1), SubSeq(p, lu + 3, lu + la + 2)>>,
        sig |-> IF rest = <<>> THEN <<>> ELSE SubSeq(rest, 2, 1 + rest[1])]

HasRecord(store, key) == \E r \in store : r.key = key
RecordOf(store, key) == (CHOOSE r \in store : r.key = key).data

Reply(resp, sw, store, sess, cause) ==
    [resp |-> resp, sw |-> sw, store |-> store, sess |-> sess, cause |-> cause]

\* What the applet answers to cmd, with its state afterwards.
DeviceReplies(cmd, store, sess) ==
    LET ins == cmd[2]
        data == CmdData(cmd)
    IN
    IF ins = INS_STORE_DATA_INIT THEN
        { Reply(<<>>, SW_SUCCESS, store,
                [kind |-> "store", key |-> ParseInit(data).key,
                 buf |-> <<>>, off |-> 0], "ok") }
    ELSE IF ins = INS_STORE_DATA_CONTINUE THEN
        IF sess.kind = "store"
        THEN { Reply(<<>>, SW_SUCCESS, store,
                     [sess EXCEPT !.buf = sess.buf \o data], "ok") }
        ELSE { Reply(<<>>, SW_CONDITIONS_NOT_SATISFIED, store, NoSess, "ok") }
    ELSE IF ins = INS_STORE_DATA_FINALIZE THEN
        IF sess.kind = "store"
        THEN { Reply(<<>>, SW_SUCCESS,
                     {r \in store : r.key # sess.key}
                        \cup {[key |-> sess.key, data |-> sess.buf]},
                     NoSess, "ok") }
        ELSE { Reply(<<>>, SW_CONDITIONS_NOT_SATISFIED, store, NoSess, "ok") }
    ELSE IF ins = INS_READ_DATA_INIT THEN
        LET q == ParseInit(data) IN
        IF ~HasRecord(store, q.key)
        THEN { Reply(<<>>, sw, store, NoSess, "absent") : sw \in RejectSW }
        ELSE IF ~Verify(DeviceKey, q.key[1] \o q.key[2], q.sig)
        THEN { Reply(<<>>, sw, store, NoSess, "badsig") : sw \in RejectSW }
        ELSE LET total == Len(RecordOf(store, q.key))
                 open == [kind |-> "read", key |-> q.key, buf |-> <<>>, off |-> 0]
             IN { Reply(<<total \div 256, total % 256>>, SW_SUCCESS, store, s, "ok")
                    : s \in IF total = 0 THEN {open, NoSess} ELSE {open} }
    ELSE IF ins = INS_READ_DATA_CONTINUE THEN
        IF sess.kind = "read"
        THEN LET rec == RecordOf(store, sess.key)
                 cnt == Min(DeviceMaxRead, Len(rec) - sess.off)
                 off == sess.off + cnt
                 left == Len(rec) - off
                 on == [sess EXCEPT !.off = off]
             IN { Reply(SubSeq(rec, sess.off + 1, off),
                        IF left = 0 THEN SW_SUCCESS ELSE <<97, Min(left, 255)>>,
                        store, s, "ok")
                    : s \in IF left = 0 THEN {on, NoSess} ELSE {on} }
        ELSE { Reply(<<>>, SW_CONDITIONS_NOT_SATISFIED, store, NoSess, "ok") }
    ELSE \* INS_READ_DATA_FINALIZE
        IF sess.kind = "read"
        THEN { Reply(<<>>, SW_SUCCESS, store, NoSess, "ok") }
        ELSE { Reply(<<>>, SW_CONDITIONS_NOT_SATISFIED, store, NoSess, "ok") }

(***************************************************************************)
(* What the transport can hand back besides the applet's regular answer:   *)
(* the card refuses the command (storage full, duplicate key, ...), it     *)
(* answers with another status word than the regular one, or it answers    *)
(* READ INIT with fewer than the two length bytes.  The card drops the     *)
(* transfer, and commits nothing, whenever it departs from the regular     *)
(* answer.                                                                 *)
(***************************************************************************)
RefusalSW == {SW_CONDITIONS_NOT_SATISFIED, <<144, 1>>}
OtherSW == {<<144, 1>>, SW_MORE_DATA}

IrregularReplies(cmd, store, sess) ==
    { Reply(<<>>, sw, store, NoSess, "fault") : sw \in RefusalSW }
    \cup { Reply(h.resp, sw, store, NoSess, "fault") :
             h \in {g \in DeviceReplies(cmd, store, sess) :
                        g.cause = "ok" /\ g.sw[1] \in {144, 97}},
             sw \in OtherSW }
    \cup (IF cmd[2] = INS_READ_DATA_INIT
          THEN { Reply(r, SW_SUCCESS, store, NoSess, "fault") : r \in {<<>>, <<0>>} }
          ELSE {})

(***************************************************************************)
(* send_apdu, lines 155-162: transmit the command; when transmit raises,   *)
(* the caller gets ([], [0x6F, 0x00]).                                     *)
(***************************************************************************)
send_apdu(cmd, store, sess) ==
    DeviceReplies(cmd, store, sess)
    \cup IrregularReplies(cmd, store, sess)
    \cup { Reply(<<>>, SW_TRANSMIT_ERROR, store, NoSess, "raise") }

(***************************************************************************)
(* State.                                                                  *)
(*   testData        TEST_DATA, with message bodies of one of the lengths  *)
(*                   tried                                                 *)
(*   PRIVATE_KEY     the module's signing key, 0 for None (line 69)        *)
(*   pc              where the client is: "idle" before a call, in the     *)
(*                   loop or before the FINALIZE of store_data or          *)
(*                   read_data, "returned" when the call has returned      *)
(*   op, cur         the call in progress or last made: "store" / "read",  *)
(*                   and the index of its record in TEST_DATA              *)
(*   message_bytes, i                 locals of store_data                 *)
(*   signature, message_length, message_data     locals of read_data       *)
(*   result          what the last call returned                           *)
(*   sent, statuses  the commands the call in progress (or last made) has  *)
(*                   transmitted, and the status of each                   *)
(*   respLens        the length of the response data of each               *)
(*   outcomes        the branch the client took on each status: "success", *)
(*                   "more" or "failure"                                   *)
(*   devStore, devSess   the card                                          *)
(*   initCause       why the card answered the INIT of the call as it did  *)
(*   regular         the card has answered every exchange of the call in   *)
(*                   the applet's regular way                              *)
(*   firstRej        the first read the card rejected at INIT for a        *)
(*                   missing record or a bad signature, as the caller and  *)
(*                   the wire saw it                                       *)
(*   transmit_failed connection.transmit has raised on this connection     *)
(*                                                                         *)
(* The fixed-length client (secured/test.py) and its card:                 *)
(*   key_pem         the key load_key reads from ec_private_key.pem        *)
(*   card_records    the records the card holds                            *)
(*   call            the last call of store_data, read_data or delete_data *)
(*                   with its arguments, its command and what it returned  *)
(*   deleted         the keys delete_data has removed and nothing has      *)
(*                   stored again                                          *)
(*   seen            for each key, what the last successful read_data of   *)
(*                   the record now on the card returned                   *)
(*                                                                         *)
(* The command frames on their own:                                        *)
(*   frame           the last command built, with the fields it was built  *)
(*                   from                                                  *)
(*                                                                         *)
(* The read loops on their own:                                            *)
(*   reader          whose loop runs: "secure_chip_client" (lines 258-273) *)
(*                   or "test_applet" (lines 182-211)                      *)
(*   announced       message_length, as READ INIT reported it              *)
(*   collected       the number of bytes collected so far                  *)
(*   more_data       the flag of "while more_data"                         *)
(*   loop_command    the last READ CONTINUE command sent                   *)
(*   last_sw         the status word of the last READ CONTINUE answer      *)
(*   loop_result     "pending" while the loop runs, then "payload" or      *)
(*                   "failure"                                             *)
(*                                                                         *)
(* The key-generation harness, web-se/test_keygen.py:                      *)
(*   harness_pc      where main is: "start", "join", "report", "done"      *)
(*   processes       the indexes of the party processes started, in order  *)
(*   party           for each index: "not_started", "running", or the      *)
(*                   outcome of its request once the process has exited    *)
(*   joined          the number of processes main has joined               *)
(*   results         the manager's shared list                             *)
(*   reported        the number main prints, -1 before                     *)
(***************************************************************************)
VARIABLES testData, PRIVATE_KEY, pc, op, cur, message_bytes, i, signature,
          message_length, message_data, result, sent, statuses, respLens,
          outcomes, devStore, devSess, initCause, regular, firstRej,
          transmit_failed, key_pem, card_records, call, deleted, seen, frame,
          reader, announced, collected, more_data, loop_command, last_sw,
          loop_result, harness_pc, processes, party, joined, results, reported

mainVars == <<testData, PRIVATE_KEY, pc, op, cur, message_bytes, i, signature,
              message_length, message_data, result, sent, statuses, respLens,
              outcomes, devStore, devSess, initCause, regular, firstRej,
              transmit_failed>>

fixedVars == <<key_pem, card_records, call, deleted, seen>>

frameVars == <<frame>>

loopVars == <<reader, announced, collected, more_data, loop_command, last_sw,
              loop_result>>

harnessVars == <<harness_pc, processes, party, joined, results, reported>>

vars == <<mainVars, fixedVars, frameVars, loopVars, harnessVars>>

\* Return values: True, False, None, a str, or a raised UnicodeDecodeError.
Ret(tag, val) == [tag |-> tag, val |-> val]
NoResult == Ret("pending", <<>>)
RetTrue == Ret("True", <<>>)
RetFalse == Ret("False", <<>>)
RetNone == Ret("None", <<>>)
RetStr(str) == Ret("str", str)
Raised == Ret("UnicodeDecodeError", <<>>)

NoObservation ==
    [cause |-> "none", cur |-> 0, signature |-> <<>>, sent |-> <<>>,
     result |-> NoResult]

Data(d) == testData[d]
Records == {1, 2}

\* Nothing has been called yet (secure_chip_client.py).
MainIdle ==
    /\ PRIVATE_KEY = 0
    /\ pc = "idle"
    /\ op = "none"
    /\ cur = 0
    /\ message_bytes = <<>>
    /\ i = 0
    /\ signature = <<>>
    /\ message_length = 0
    /\ message_data = <<>>
    /\ result = NoResult
    /\ sent = <<>>
    /\ statuses = <<>>
    /\ respLens = <<>>
    /\ outcomes = <<>>
    /\ devStore = {}
    /\ devSess = NoSess
    /\ initCause = "none"
    /\ regular = TRUE
    /\ firstRej = NoObservation
    /\ transmit_failed = FALSE

\* Nothing has been called yet (secured/test.py): the card is empty.
NoCall == [op |-> "none", key |-> 0, message |-> <<>>, command |-> <<>>,
           result |-> NoResult]
NoPayload == <<-1>>

FixedIdle ==
    /\ card_records = {}
    /\ call = NoCall
    /\ deleted = {}
    /\ seen = [k \in FixedKeys |-> NoPayload]

NoFrame == [kind |-> "none", data |-> <<>>, command |-> <<>>]

\* No read loop runs.
LoopIdle ==
    /\ reader = "none"
    /\ announced = 0
    /\ collected = 0
    /\ more_data = FALSE
    /\ loop_command = <<>>
    /\ last_sw = <<>>
    /\ loop_result = "none"

\* test_keygen.py, line 81.
PARTIES == 3

\* main of test_keygen.py has not run.
HarnessIdle ==
    /\ harness_pc = "none"
    /\ processes = <<>>
    /\ party = [index \in 1..PARTIES |-> "not_started"]
    /\ joined = 0
    /\ results = <<>>
    /\ reported = -1

Init ==
    /\ testData \in {TEST_DATA(n) : n \in BodyLengths}
    /\ MainIdle
    /\ key_pem = 1
    /\ FixedIdle
    /\ frame = NoFrame
    /\ LoopIdle
    /\ HarnessIdle

\* One exchange: the command goes out, the card moves on, the reply is r.
Exchange(cmd, r, outcome) ==
    /\ sent' = Append(sent, cmd)
    /\ statuses' = Append(statuses, r.sw)
    /\ respLens' = Append(respLens, Len(r.resp))
    /\ outcomes' = Append(outcomes, outcome)
    /\ devStore' = r.store
    /\ devSess' = r.sess
    /\ transmit_failed' = (transmit_failed \/ r.cause = "raise")

\* The first rejected read is kept when the call that suffered it returns.
Observe ==
    firstRej' =
        IF /\ firstRej = NoObservation
           /\ pc' = "returned"
           /\ op' = "read"
           /\ initCause' \in {"absent", "badsig"}
        THEN [cause |-> initCause', cur |-> cur', signature |-> signature',
              sent |-> sent', result |-> result']
        ELSE firstRej

(***************************************************************************)
(* main, lines 326-347: the calls come one after the other on the one      *)
(* connection; a call starts when the call before it has returned.         *)
(***************************************************************************)
\* A caller that starts a call while a transfer is still under way.
CallReadyAnytime(p) == p \in {"idle", "store_loop", "read_loop"}

CallReady(p) == p = "idle"

(***************************************************************************)
(* generate_keypair, lines 286-294 (main calls it first, line 319).        *)
(***************************************************************************)
generate_keypair ==
    /\ pc = "idle"
    /\ PRIVATE_KEY = 0
    /\ PRIVATE_KEY' \in KeyIds
    /\ UNCHANGED <<testData, pc, op, cur, message_bytes, i, signature,
                   message_length, message_data, result, sent, statuses,
                   respLens, outcomes, devStore, devSess, initCause,
                   regular, firstRej, transmit_failed>>
    /\ UNCHANGED <<fixedVars, frameVars, loopVars, harnessVars>>

(***************************************************************************)
(* store_data, lines 175-190: encode, send STORE INIT, give up unless the  *)
(* status is SW_SUCCESS.                                                   *)
(***************************************************************************)
\* A store that looks at the first status byte only.
StoreStatusFirstByte(status) ==
    IF status[1] # 144 THEN "failure" ELSE "success"

StoreStatus(status) == IF status # SW_SUCCESS THEN "failure" ELSE "success"

store_data_init(d) ==
    /\ CallReady(pc)
    /\ LET username_bytes == encode_utf8(Data(d).username)
           address_bytes == encode_utf8(Data(d).address)
           init_data == store_init_data(username_bytes, address_bytes)
           cmd == apdu_command(CLA, INS_STORE_DATA_INIT, 0, 0, init_data, NoLe)
       IN \E r \in send_apdu(cmd, devStore, devSess) :
            /\ sent' = <<cmd>>
            /\ statuses' = <<r.sw>>
            /\ respLens' = <<Len(r.resp)>>
            /\ outcomes' = <<StoreStatus(r.sw)>>
            /\ devStore' = r.store
            /\ devSess' = r.sess
            /\ transmit_failed' = (transmit_failed \/ r.cause = "raise")
            /\ op' = "store"
            /\ cur' = d
            /\ message_bytes' = encode_utf8(Data(d).message)
            /\ i' = 0
            /\ initCause' = r.cause
            /\ regular' = (r.cause = "ok")
            /\ IF StoreStatus(r.sw) = "failure"
               THEN pc' = "returned" /\ result' = RetFalse
               ELSE pc' = "store_loop" /\ result' = NoResult
    /\ signature' = <<>>
    /\ message_length' = 0
    /\ message_data' = <<>>
    /\ UNCHANGED <<testData, PRIVATE_KEY, firstRej>>
    /\ UNCHANGED <<fixedVars, frameVars, loopVars, harnessVars>>

(***************************************************************************)
(* store_data, lines 193-204: one round of the chunk loop.                 *)
(***************************************************************************)
\* A loop that also runs when the offset has reached the length.
StoreLoopRunsInclusive(offset, total) == offset <= total

StoreLoopRuns(offset, total) == offset < total

\* A slice that stops one byte early.
StoreChunkShort(bytes, offset) ==
    SubSeq(bytes, offset + 1, Min(offset + chunk_size - 1, Len(bytes)))

StoreChunk(bytes, offset) ==
    SubSeq(bytes, offset + 1, Min(offset + chunk_size, Len(bytes)))

store_data_continue ==
    /\ pc = "store_loop"
    /\ StoreLoopRuns(i, Len(message_bytes))
    /\ LET chunk == StoreChunk(message_bytes, i)
           cmd == apdu_command(CLA, INS_STORE_DATA_CONTINUE, 0, 0, chunk, NoLe)
       IN \E r \in send_apdu(cmd, devStore, devSess) :
            /\ Exchange(cmd, r, StoreStatus(r.sw))
            /\ regular' = (regular /\ r.cause = "ok")
            /\ IF StoreStatus(r.sw) = "failure"
               THEN pc' = "returned" /\ result' = RetFalse /\ i' = i
               ELSE pc' = pc /\ result' = result /\ i' = i + chunk_size
    /\ UNCHANGED <<testData, PRIVATE_KEY, op, cur, message_bytes, signature,
                   message_length, message_data, initCause, firstRej>>
    /\ UNCHANGED <<fixedVars, frameVars, loopVars, harnessVars>>

(***************************************************************************)
(* store_data, lines 206-214: STORE FINALIZE and the return value.         *)
(***************************************************************************)
\* A store that closes with one more (empty) CONTINUE.
store_finalize_command_continue ==
    apdu_command(CLA, INS_STORE_DATA_CONTINUE, 0, 0, <<>>, NoLe)

\* The command of line 207; its data is the empty list.
store_finalize_command ==
    apdu_command(CLA, INS_STORE_DATA_FINALIZE, 0, 0, <<>>, NoLe)

store_data_finalize ==
    /\ pc = "store_loop"
    /\ ~StoreLoopRuns(i, Len(message_bytes))
    /\ LET cmd == store_finalize_command
       IN \E r \in send_apdu(cmd, devStore, devSess) :
            /\ Exchange(cmd, r, StoreStatus(r.sw))
            /\ regular' = (regular /\ r.cause = "ok")
            /\ result' = IF StoreStatus(r.sw) = "failure"
                          THEN RetFalse ELSE RetTrue
    /\ pc' = "returned"
    /\ UNCHANGED <<testData, PRIVATE_KEY, op, cur, message_bytes, i, signature,
                   message_length, message_data, initCause, firstRej>>
    /\ UNCHANGED <<fixedVars, frameVars, loopVars, harnessVars>>

(***************************************************************************)
(* read_data, lines 226-256: sign, send READ INIT, give up unless the      *)
(* first status byte is 0x90 and the response holds the two length bytes.  *)
(* generate_signature (lines 296-314) makes a key when there is none.      *)
(***************************************************************************)
ReadInitStatus(status) == IF status[1] # 144 THEN "failure" ELSE "success"

\* What read_data returns when the INIT is refused (line 248) and when the
\* response is too short to hold the length (line 253).
\* A client that hands back an empty message for "record not found" (6A 82).
ReadInitRefusedByStatus(status) ==
    IF status = <<106, 130>> THEN RetStr(<<>>) ELSE RetNone

\* A client that hands back an empty message for a malformed INIT response.
ReadInitMalformedEmpty == RetStr(<<>>)

ReadInitRefused(status) == RetNone

ReadInitMalformed == RetNone

\* A generate_signature that makes a new key for every signature.
SigningKeysFresh(private_key) == KeyIds

\* generate_signature, lines 307-308: the key that signs is PRIVATE_KEY,
\* made by generate_keypair when there is none yet.
SigningKeys(private_key) ==
    IF private_key = 0 THEN KeyIds ELSE {private_key}

read_data_init(d) ==
    /\ CallReady(pc)
    /\ \E key \in SigningKeys(PRIVATE_KEY), nonce \in Nonces :
         LET username_bytes == encode_utf8(Data(d).username)
             address_bytes == encode_utf8(Data(d).address)
             sig == Sign(key, data_to_sign(username_bytes, address_bytes),
                         nonce)
             init_data == read_init_data(username_bytes, address_bytes, sig)
             cmd == apdu_command(CLA, INS_READ_DATA_INIT, 0, 0, init_data, NoLe)
         IN \E r \in send_apdu(cmd, devStore, devSess) :
              /\ PRIVATE_KEY' = key
              /\ signature' = sig
              /\ sent' = <<cmd>>
              /\ statuses' = <<r.sw>>
              /\ respLens' = <<Len(r.resp)>>
              /\ outcomes' = <<ReadInitStatus(r.sw)>>
              /\ devStore' = r.store
              /\ devSess' = r.sess
              /\ transmit_failed' = (transmit_failed \/ r.cause = "raise")
              /\ op' = "read"
              /\ cur' = d
              /\ initCause' = r.cause
              /\ regular' = (r.cause = "ok")
              /\ IF ReadInitStatus(r.sw) = "failure"
                 THEN /\ pc' = "returned"
                      /\ result' = ReadInitRefused(r.sw)
                      /\ message_length' = 0
                 ELSE IF Len(r.resp) < 2
                 THEN /\ pc' = "returned"
                      /\ result' = ReadInitMalformed
                      /\ message_length' = 0
                 ELSE /\ pc' = "read_loop"
                      /\ result' = NoResult
                      /\ message_length' = parse_message_length(r.resp)
    /\ message_data' = <<>>
    /\ message_bytes' = <<>>
    /\ i' = 0
    /\ Observe
    /\ UNCHANGED testData
    /\ UNCHANGED <<fixedVars, frameVars, loopVars, harnessVars>>

(***************************************************************************)
(* read_data, lines 262-273: one round of "while more_data".               *)
(***************************************************************************)
ReadLoopRuns(received, total) == TRUE

ReadChunkStatus(status) ==
    IF status[1] = 144 THEN "success"
    ELSE IF status[1] = 97 THEN "more"
    ELSE "failure"

read_data_continue ==
    /\ pc = "read_loop"
    /\ ReadLoopRuns(Len(message_data), message_length)
    /\ LET cmd == apdu_command(CLA, INS_READ_DATA_CONTINUE, 0, 0, <<>>, 0)
       IN \E r \in send_apdu(cmd, devStore, devSess) :
            /\ Exchange(cmd, r, ReadChunkStatus(r.sw))
            /\ regular' = (regular /\ r.cause = "ok")
            /\ LET outcome == ReadChunkStatus(r.sw) IN
               IF outcome = "success"
               THEN /\ message_data' = message_data \o r.resp
                    /\ pc' = "read_finalize"
                    /\ result' = result
               ELSE IF outcome = "more"
               THEN /\ message_data' = message_data \o r.resp
                    /\ pc' = pc
                    /\ result' = result
               ELSE /\ message_data' = message_data
                    /\ pc' = "returned"
                    /\ result' = RetNone
    /\ UNCHANGED <<testData, PRIVATE_KEY, op, cur, message_bytes, i, signature,
                   message_length, initCause>>
    /\ Observe
    /\ UNCHANGED <<fixedVars, frameVars, loopVars, harnessVars>>

(***************************************************************************)
(* read_data, lines 275-284: READ FINALIZE, whose status is only logged,   *)
(* then decode and return.                                                 *)
(***************************************************************************)
\* A read that treats the status of FINALIZE as an error.
ReadResultStrict(finalize_status, data) ==
    IF finalize_status # SW_SUCCESS
    THEN RetNone
    ELSE LET message == decode_utf8(data)
         IN IF message = DecodeError THEN Raised ELSE RetStr(message)

ReadResult(finalize_status, data) ==
    LET message == decode_utf8(data)
    IN IF message = DecodeError THEN Raised ELSE RetStr(message)

read_data_finalize ==
    /\ pc = "read_finalize"
    /\ LET cmd == apdu_command(CLA, INS_READ_DATA_FINALIZE, 0, 0, <<>>, NoLe)
       IN \E r \in send_apdu(cmd, devStore, devSess) :
            /\ Exchange(cmd, r, StoreStatus(r.sw))
            /\ regular' = (regular /\ r.cause = "ok")
            /\ result' = ReadResult(r.sw, message_data)
    /\ pc' = "returned"
    /\ UNCHANGED <<testData, PRIVATE_KEY, op, cur, message_bytes, i, signature,
                   message_length, message_data, initCause>>
    /\ Observe
    /\ UNCHANGED <<fixedVars, frameVars, loopVars, harnessVars>>

(***************************************************************************)
(* main, lines 333-339 and 348-359: the caller logs what the call returned *)
(* and goes on to its next call; the locals of the call are gone.          *)
(***************************************************************************)
main_continue ==
    /\ pc = "returned"
    /\ pc' = "idle"
    /\ op' = "none"
    /\ cur' = 0
    /\ message_bytes' = <<>>
    /\ i' = 0
    /\ signature' = <<>>
    /\ message_length' = 0
    /\ message_data' = <<>>
    /\ result' = NoResult
    /\ sent' = <<>>
    /\ statuses' = <<>>
    /\ respLens' = <<>>
    /\ outcomes' = <<>>
    /\ initCause' = "none"
    /\ regular' = TRUE
    /\ UNCHANGED <<testData, PRIVATE_KEY, devStore, devSess, firstRej,
                   transmit_failed>>
    /\ UNCHANGED <<fixedVars, frameVars, loopVars, harnessVars>>

Next ==
    \/ generate_keypair
    \/ \E d \in Records : store_data_init(d)
    \/ store_data_continue
    \/ store_data_finalize
    \/ \E d \in Records : read_data_init(d)
    \/ read_data_continue
    \/ read_data_finalize
    \/ main_continue

Spec == Init /\ [][Next]_vars

(***************************************************************************)
(* The fixed-length client, secured/test.py.  A record is a username       *)
(* padded to 32 bytes, an address padded to 64 and a message padded to 32; *)
(* store, read and delete are one command each.                            *)
(***************************************************************************)
INS_STORE_DATA == 16
INS_READ_DATA == 32
INS_DELETE_DATA == 48
USERNAME_LENGTH == 32
ADDR_LENGTH == 64
MESSAGE_LENGTH == 32

\* bytes.ljust(length, b'\x00'): zero bytes up to length, nothing cut off.
ljust_zero(bytes, length) ==
    bytes \o [j \in 1..(length - Len(bytes)) |-> 0]

\* pad_data, lines 56-60, of a str.
pad_data(data, length) == ljust_zero(encode_utf8(data), length)

\* A strip that takes one zero byte at most.
rstrip_one_zero(bytes) ==
    IF bytes # <<>> /\ bytes[Len(bytes)] = 0
    THEN SubSeq(bytes, 1, Len(bytes) - 1)
    ELSE bytes

\* bytes.rstrip(b'\x00'), line 157.
rstrip_zero(bytes) ==
    LET keep == {k \in 1..Len(bytes) : bytes[k] # 0}
    IN IF keep = {} THEN <<>>
       ELSE SubSeq(bytes, 1, CHOOSE k \in keep : \A j \in keep : j <= k)

\* run_tests, lines 217-223.
test_username1 ==
    <<117, 115, 101, 114, 49, 64, 101, 120, 97, 109, 112, 108, 101, 46, 99,
      111, 109>>
test_address1 ==
    <<48, 120>> \o [j \in 1..48 |->
        <<49, 50, 51, 52, 53, 54, 55, 56, 57, 48, 97, 98, 99, 100, 101,
          102>>[((j - 1) % 16) + 1]]
test_message1 ==
    <<36825, 26159, 19968, 26465, 27979, 35797, 28040, 24687>>
test_username2 ==
    <<117, 115, 101, 114, 50, 64, 101, 120, 97, 109, 112, 108, 101, 46, 99,
      111, 109>>
test_address2 ==
    <<48, 120>> \o [j \in 1..48 |->
        <<97, 98, 99, 100, 101, 102, 49, 50, 51, 52, 53, 54, 55, 56, 57,
          48>>[((j - 1) % 16) + 1]]
test_message2 ==
    <<36825, 26159, 21478, 19968, 26465, 27979, 35797, 28040, 24687>>

FixedUser(k) ==
    IF k = 1 THEN [username |-> test_username1, address |-> test_address1]
    ELSE [username |-> test_username2, address |-> test_address2]

\* The messages stored under the first key: the one of run_tests, short
\* ones of the characters NUL and "A" in every order, two that fill the
\* field and one that is too long for it.  The second key holds
\* test_message2.
RECURSIVE ShortMessages(_)
ShortMessages(n) ==
    IF n = 0 THEN {<<>>}
    ELSE LET shorter == ShortMessages(n - 1)
         IN shorter \cup {Append(m, c) : m \in shorter, c \in {0, 65}}

\* A message of one byte more than the message field holds.
OverlongMessage == [j \in 1..(MESSAGE_LENGTH + 1) |-> 65]

FixedMessages ==
    {test_message1, test_message2, OverlongMessage}
      \cup ShortMessages(MaxShort)
      \cup {[j \in 1..MESSAGE_LENGTH |-> 65],
            [j \in 1..MESSAGE_LENGTH |-> IF j < MESSAGE_LENGTH THEN 65 ELSE 0]}

MessagesFor(k) == IF k = 1 THEN FixedMessages \ {test_message2}
                  ELSE {test_message2}

\* username_bytes + address_bytes, the 96 bytes that name a record, for
\* each key.
FixedKeyBytes ==
    [k \in FixedKeys |->
        pad_data(FixedUser(k).username, USERNAME_LENGTH)
          \o pad_data(FixedUser(k).address, ADDR_LENGTH)]

\* message_bytes of line 109, for each message.
PaddedMessage == [m \in FixedMessages |-> pad_data(m, MESSAGE_LENGTH)]

\* command of lines 114, 149 and 191.
fixed_command(ins, data) == <<CLA, ins, 0, 0, Len(data)>> \o data

(***************************************************************************)
(* The card of the fixed-length client, from the protocol description:     *)
(* store answers [recordIndex, recordCount], read answers the padded       *)
(* message, delete answers [deletedIndex, remainingCount]; read and delete *)
(* want an existing record and a signature that verifies.  A key that is   *)
(* already there is replaced or refused.                                   *)
(***************************************************************************)
FixedKeyLength == 96
SW_WRONG_LENGTH == <<103, 0>>

FixedReply(resp, sw, records, cause) ==
    [resp |-> resp, sw |-> sw, records |-> records, cause |-> cause]

FixedCardReplies(cmd, records) ==
    LET ins == cmd[2]
        data == CmdData(cmd)
        key == SubSeq(data, 1, FixedKeyLength)
        rest == SubSeq(data, FixedKeyLength + 1, Len(data))
        others == {r \in records : r.key # key}
    IN
    IF Len(data) < FixedKeyLength
    THEN { FixedReply(<<>>, SW_WRONG_LENGTH, records, "ok") }
    ELSE IF ins = INS_STORE_DATA THEN
        IF Len(rest) # MESSAGE_LENGTH
        THEN { FixedReply(<<>>, SW_WRONG_LENGTH, records, "ok") }
        ELSE { FixedReply(<<Cardinality(others), Cardinality(others) + 1>>,
                          SW_SUCCESS,
                          others \cup {[key |-> key, data |-> rest]}, "ok") }
             \cup (IF HasRecord(records, key)
                   THEN { FixedReply(<<>>, SW_CONDITIONS_NOT_SATISFIED,
                                     records, "ok") }
                   ELSE {})
    ELSE IF ~HasRecord(records, key)
    THEN { FixedReply(<<>>, sw, records, "absent") : sw \in RejectSW }
    ELSE IF ~Verify(DeviceKey, key, rest)
    THEN { FixedReply(<<>>, sw, records, "badsig") : sw \in RejectSW }
    ELSE IF ins = INS_READ_DATA
    THEN { FixedReply(RecordOf(records, key), SW_SUCCESS, records, "ok") }
    ELSE \* INS_DELETE_DATA
         { FixedReply(<<Cardinality(others), Cardinality(others)>>,
                      SW_SUCCESS, others, "ok") }

\* connection.transmit: the card's answer, a refusal that changes nothing,
\* or an exception.
transmit(cmd, records) ==
    FixedCardReplies(cmd, records)
    \cup { FixedReply(<<>>, SW_CONDITIONS_NOT_SATISFIED, records, "fault"),
           FixedReply(<<>>, SW_TRANSMIT_ERROR, records, "raise") }

RetBytes(bytes) == Ret("bytes", bytes)

\* sign_data, lines 42-53, of the 96 bytes of key k, for each private key
\* and each nonce the library may draw.
sign_data ==
    [private_key \in KeyIds, k \in FixedKeys, nonce \in Nonces |->
        Sign(private_key, FixedKeyBytes[k], nonce)]

InitFixed ==
    /\ testData = TEST_DATA(0)
    /\ MainIdle
    /\ key_pem \in KeyIds
    /\ FixedIdle
    /\ frame = NoFrame
    /\ LoopIdle
    /\ HarnessIdle

\* The card has taken a record under key k: what was deleted or read
\* under k before is history.
Committed(r, k) ==
    /\ deleted' = IF r.records # card_records \/ r.sw = SW_SUCCESS
                  THEN deleted \ {k} ELSE deleted
    /\ seen' = IF r.records # card_records \/ r.sw = SW_SUCCESS
               THEN [seen EXCEPT ![k] = NoPayload] ELSE seen

(***************************************************************************)
(* store_data, lines 99-128: True when the status is (0x90, 0x00) and the  *)
(* two response bytes can be printed, False otherwise and on an exception. *)
(***************************************************************************)
store_succeeded(r) ==
    r.cause # "raise" /\ r.sw = SW_SUCCESS /\ Len(r.resp) >= 2

store_data(k, message) ==
    /\ LET data == FixedKeyBytes[k] \o PaddedMessage[message]
           command == fixed_command(INS_STORE_DATA, data)
       IN \E r \in transmit(command, card_records) :
            /\ card_records' = r.records
            /\ call' = [op |-> "store", key |-> k, message |-> message,
                        command |-> command,
                        result |-> IF store_succeeded(r)
                                   THEN RetTrue ELSE RetFalse]
            /\ Committed(r, k)
    /\ UNCHANGED <<mainVars, frameVars, loopVars, harnessVars, key_pem>>

(***************************************************************************)
(* read_data, lines 131-170: the message without its trailing zero bytes   *)
(* when the status is (0x90, 0x00), None otherwise and on an exception.    *)
(***************************************************************************)
read_result(r) ==
    IF r.cause # "raise" /\ r.sw = SW_SUCCESS
    THEN RetBytes(rstrip_zero(r.resp))
    ELSE RetNone

read_data(k) ==
    /\ \E nonce \in Nonces :
         LET signed == sign_data[key_pem, k, nonce]
             data == FixedKeyBytes[k] \o signed
             command == fixed_command(INS_READ_DATA, data)
         IN \E r \in transmit(command, card_records) :
              /\ card_records' = r.records
              /\ call' = [op |-> "read", key |-> k, message |-> <<>>,
                          command |-> command, result |-> read_result(r)]
              /\ seen' = IF read_result(r).tag = "bytes"
                         THEN [seen EXCEPT ![k] = read_result(r).val]
                         ELSE seen
    /\ UNCHANGED <<mainVars, frameVars, loopVars, harnessVars, key_pem, deleted>>

(***************************************************************************)
(* delete_data, lines 173-205: True when the status is (0x90, 0x00) and    *)
(* the two response bytes can be printed, False otherwise.                 *)
(***************************************************************************)
\* A delete that reports success whatever the card answered.
delete_succeeded_always(r) == TRUE

delete_succeeded(r) ==
    r.cause # "raise" /\ r.sw = SW_SUCCESS /\ Len(r.resp) >= 2

delete_data(k) ==
    /\ \E nonce \in Nonces :
         LET signed == sign_data[key_pem, k, nonce]
             data == FixedKeyBytes[k] \o signed
             command == fixed_command(INS_DELETE_DATA, data)
         IN \E r \in transmit(command, card_records) :
              /\ card_records' = r.records
              /\ call' = [op |-> "delete", key |-> k, message |-> <<>>,
                          command |-> command,
                          result |-> IF delete_succeeded(r)
                                     THEN RetTrue ELSE RetFalse]
              /\ deleted' = IF delete_succeeded(r)
                            THEN deleted \cup {k} ELSE deleted
              /\ seen' = IF delete_succeeded(r)
                         THEN [seen EXCEPT ![k] = NoPayload] ELSE seen
    /\ UNCHANGED <<mainVars, frameVars, loopVars, harnessVars, key_pem>>

\* run_tests, lines 225-245, with the calls in any order.
NextFixed ==
    \/ \E k \in FixedKeys : \E message \in MessagesFor(k) :
          store_data(k, message)
    \/ \E k \in FixedKeys : read_data(k)
    \/ \E k \in FixedKeys : delete_data(k)

SpecFixed == InitFixed /\ [][NextFixed]_vars

(***************************************************************************)
(* The command frames on their own: what store_data and read_data hand to  *)
(* send_apdu, and send_apdu to connection.transmit, for usernames,         *)
(* addresses and messages of many lengths (secure_chip_client.py).         *)
(***************************************************************************)
FieldLengths == {0, 8, 34, 200, MaxFieldLength - 1, MaxFieldLength}

\* username.encode('utf-8') of a username of n ASCII letters, for each n
\* (lines 178-180, 229-230).
EncodedLetters == [n \in FieldLengths |-> encode_utf8([j \in 1..n |-> 97])]

\* generate_signature(data_to_sign) of lines 233-236, for each username,
\* address, private key and nonce.
SignedLetters ==
    [u \in FieldLengths, a \in FieldLengths, key \in KeyIds,
     nonce \in Nonces |->
        Sign(key, data_to_sign(EncodedLetters[u], EncodedLetters[a]), nonce)]

InitFrames ==
    /\ testData = TEST_DATA(0)
    /\ MainIdle
    /\ key_pem = 1
    /\ FixedIdle
    /\ frame = NoFrame
    /\ LoopIdle
    /\ HarnessIdle

\* Lines 178-184: the STORE INIT command for a username of u letters and
\* an address of a letters.
frame_store_init(u, a) ==
    /\ LET init_data == store_init_data(EncodedLetters[u], EncodedLetters[a])
       IN frame' = [kind |-> "store_init", data |-> init_data,
                    command |-> apdu_command(CLA, INS_STORE_DATA_INIT, 0, 0,
                                             init_data, NoLe)]
    /\ UNCHANGED <<mainVars, fixedVars, loopVars, harnessVars>>

\* Lines 194-198: the STORE CONTINUE command of the chunk at offset of a
\* message of n letters.
frame_store_continue(n, offset) ==
    /\ StoreLoopRuns(offset, Len(EncodedLetters[n]))
    /\ LET chunk == StoreChunk(EncodedLetters[n], offset)
       IN frame' = [kind |-> "store_continue", data |-> chunk,
                    command |-> apdu_command(CLA, INS_STORE_DATA_CONTINUE,
                                             0, 0, chunk, NoLe)]
    /\ UNCHANGED <<mainVars, fixedVars, loopVars, harnessVars>>

\* Lines 229-244: the READ INIT command.
frame_read_init(u, a, key, nonce) ==
    /\ LET init_data == read_init_data(EncodedLetters[u], EncodedLetters[a],
                                       SignedLetters[u, a, key, nonce])
       IN frame' = [kind |-> "read_init", data |-> init_data,
                    command |-> apdu_command(CLA, INS_READ_DATA_INIT, 0, 0,
                                             init_data, NoLe)]
    /\ UNCHANGED <<mainVars, fixedVars, loopVars, harnessVars>>

\* Lines 207, 263 and 276: the commands without data.
frame_no_data(ins, le) ==
    /\ frame' = [kind |-> "no_data", data |-> <<>>,
                 command |-> apdu_command(CLA, ins, 0, 0, <<>>, le)]
    /\ UNCHANGED <<mainVars, fixedVars, loopVars, harnessVars>>

NextFrames ==
    \/ \E u, a \in FieldLengths : frame_store_init(u, a)
    \/ \E n \in FieldLengths, c \in 0..MaxChunks :
          frame_store_continue(n, c * chunk_size)
    \/ \E u, a \in FieldLengths, key \in KeyIds, nonce \in Nonces :
          frame_read_init(u, a, key, nonce)
    \/ frame_no_data(INS_STORE_DATA_FINALIZE, NoLe)
    \/ frame_no_data(INS_READ_DATA_CONTINUE, 0)
    \/ frame_no_data(INS_READ_DATA_FINALIZE, NoLe)

SpecFrames == InitFrames /\ [][NextFrames]_vars

(***************************************************************************)
(* The read loops on their own, after a READ INIT that reported            *)
(* message_length: "while more_data" of secure_chip_client.py (lines       *)
(* 258-273) and of test_applet.py (lines 182-211), against a card that     *)
(* answers each READ CONTINUE as it likes, with at least one byte in every *)
(* MoreData answer.  collected counts up to 2 * MaxTotal and stays there;  *)
(* the loop of test_applet.py stops long before, the loop of               *)
(* secure_chip_client.py never looks at it.                                *)
(***************************************************************************)
MaxTotal == 300

SW_MORE_DATA_PREFIX == 97

\* The values of message_length tried.
LoopTotals ==
    {0, 1, DeviceMaxRead - 1, DeviceMaxRead, DeviceMaxRead + 1, MaxTotal}

\* What the card may answer to a READ CONTINUE: a status word and n bytes.
LoopAnswers ==
    { [sw |-> <<SW_MORE_DATA_PREFIX, left>>, n |-> n] :
         left \in {1, 255}, n \in {1, DeviceMaxRead} }
    \cup { [sw |-> SW_SUCCESS, n |-> n] : n \in {0, 1, DeviceMaxRead} }
    \cup { [sw |-> sw, n |-> 0] :
             sw \in {<<144, 1>>, SW_CONDITIONS_NOT_SATISFIED,
                     SW_TRANSMIT_ERROR} }

\* message_data.extend(response), as a length.
Collect(n) == Min(collected + n, 2 * MaxTotal)

InitReadLoop ==
    /\ testData = TEST_DATA(0)
    /\ MainIdle
    /\ key_pem = 1
    /\ FixedIdle
    /\ frame = NoFrame
    /\ reader \in {"secure_chip_client", "test_applet"}
    /\ announced \in LoopTotals
    /\ collected = 0
    /\ more_data = TRUE
    /\ loop_command = <<>>
    /\ last_sw = <<>>
    /\ loop_result = "pending"
    /\ HarnessIdle

\* secure_chip_client.py, lines 262-273: one round of the loop.  After the
\* loop come READ FINALIZE and the decoding (lines 275-284), which return.
chip_read_continue ==
    /\ reader = "secure_chip_client"
    /\ loop_result = "pending"
    /\ more_data
    /\ ReadLoopRuns(collected, announced)
    /\ \E answer \in LoopAnswers :
         LET outcome == ReadChunkStatus(answer.sw) IN
         /\ loop_command' = apdu_command(CLA, INS_READ_DATA_CONTINUE, 0, 0,
                                         <<>>, 0)
         /\ last_sw' = answer.sw
         /\ IF outcome = "success"
            THEN /\ collected' = Collect(answer.n)
                 /\ more_data' = FALSE
                 /\ loop_result' = "payload"
            ELSE IF outcome = "more"
            THEN /\ collected' = Collect(answer.n)
                 /\ more_data' = TRUE
                 /\ loop_result' = "pending"
            ELSE /\ collected' = collected
                 /\ more_data' = more_data
                 /\ loop_result' = "failure"
    /\ UNCHANGED <<reader, announced>>
    /\ UNCHANGED <<mainVars, fixedVars, frameVars, harnessVars>>

\* A hint that asks for the most the card sends, whatever is outstanding.
applet_expected_len_full(received, total) == DeviceMaxRead

\* test_applet.py, line 193.
applet_expected_len(received, total) == Min(DeviceMaxRead, total - received)

\* test_applet.py, lines 201-211.
AppletChunkStatus(status) ==
    IF status[1] = SW_MORE_DATA_PREFIX THEN "more"
    ELSE IF status = SW_SUCCESS THEN "success"
    ELSE "failure"

\* test_applet.py, lines 186-211: one round of the loop.  After the loop
\* the bytes are decoded (lines 218-223), which returns.
applet_read_continue ==
    /\ reader = "test_applet"
    /\ loop_result = "pending"
    /\ more_data
    /\ LET expected_len == applet_expected_len(collected, announced) IN
       IF collected >= announced \/ expected_len <= 0
       THEN /\ more_data' = FALSE
            /\ loop_result' = "payload"
            /\ UNCHANGED <<collected, loop_command, last_sw>>
       ELSE \E answer \in LoopAnswers :
              LET outcome == AppletChunkStatus(answer.sw) IN
              /\ loop_command' = <<CLA, INS_READ_DATA_CONTINUE, 0, 0,
                                   expected_len>>
              /\ last_sw' = answer.sw
              /\ IF outcome = "more"
                 THEN /\ collected' = Collect(answer.n)
                      /\ more_data' = TRUE
                      /\ loop_result' = "pending"
                 ELSE IF outcome = "success"
                 THEN /\ collected' = Collect(answer.n)
                      /\ more_data' = FALSE
                      /\ loop_result' = "payload"
                 ELSE /\ collected' = collected
                      /\ more_data' = more_data
                      /\ loop_result' = "failure"
    /\ UNCHANGED <<reader, announced>>
    /\ UNCHANGED <<mainVars, fixedVars, frameVars, harnessVars>>

NextReadLoop ==
    \/ chip_read_continue
    \/ applet_read_continue

SpecReadLoop == InitReadLoop /\ [][NextReadLoop]_vars

\* Each loop is straight-line code of one process: while it has a round to
\* make, it makes it.
SpecReadLoopFair ==
    InitReadLoop /\ [][NextReadLoop]_vars /\ WF_vars(NextReadLoop)

(***************************************************************************)
(* The key-generation harness, web-se/test_keygen.py: main starts one      *)
(* process for each party, joins them all and prints the length of the     *)
(* shared list.                                                            *)
(***************************************************************************)
\* What test_keygen returns (lines 45-70): the server's answer with
\* "success" true, the server's answer with "success" false, or None after
\* a RequestException.
KeygenOutcomes == {"success", "unsuccessful", "None"}

\* run_keygen, lines 73-76: `if result:` holds for every answer that is
\* not None.
run_keygen(index, outcome, shared) ==
    IF outcome # "None"
    THEN Append(shared, [index |-> index, outcome |-> outcome])
    ELSE shared

\* The target of Process(...) in main, line 93.
ProcessTarget == "test_keygen"

InitKeygen ==
    /\ testData = TEST_DATA(0)
    /\ MainIdle
    /\ key_pem = 1
    /\ FixedIdle
    /\ frame = NoFrame
    /\ LoopIdle
    /\ harness_pc = "start"
    /\ processes = <<>>
    /\ party = [index \in 1..PARTIES |-> "not_started"]
    /\ joined = 0
    /\ results = <<>>
    /\ reported = -1

\* main, lines 91-96: start the process of the next party.
main_start ==
    /\ harness_pc = "start"
    /\ LET index == Len(processes) + 1 IN
       /\ party' = [party EXCEPT ![index] = "running"]
       /\ processes' = Append(processes, index)
       /\ harness_pc' = IF index = PARTIES THEN "join" ELSE "start"
    /\ UNCHANGED <<joined, results, reported>>
    /\ UNCHANGED <<mainVars, fixedVars, frameVars, loopVars>>

\* The process of party index runs its target to the end and exits.
party_exit(index) ==
    /\ party[index] = "running"
    /\ \E outcome \in KeygenOutcomes :
         /\ party' = [party EXCEPT ![index] = outcome]
         /\ results' = IF ProcessTarget = "run_keygen"
                       THEN run_keygen(index, outcome, results)
                       ELSE results
    /\ UNCHANGED <<harness_pc, processes, joined, reported>>
    /\ UNCHANGED <<mainVars, fixedVars, frameVars, loopVars>>

\* main, lines 99-100: p.join() returns when the process has exited.
main_join ==
    /\ harness_pc = "join"
    /\ IF joined = Len(processes)
       THEN /\ harness_pc' = "report"
            /\ joined' = joined
       ELSE /\ party[processes[joined + 1]] \in KeygenOutcomes
            /\ joined' = joined + 1
            /\ harness_pc' = harness_pc
    /\ UNCHANGED <<processes, party, results, reported>>
    /\ UNCHANGED <<mainVars, fixedVars, frameVars, loopVars>>

\* main, lines 103-104: print len(results).
main_report ==
    /\ harness_pc = "report"
    /\ reported' = Len(results)
    /\ harness_pc' = "done"
    /\ UNCHANGED <<processes, party, joined, results>>
    /\ UNCHANGED <<mainVars, fixedVars, frameVars, loopVars>>

NextKeygen ==
    \/ main_start
    \/ \E index \in 1..PARTIES : party_exit(index)
    \/ main_join
    \/ main_report

SpecKeygen == InitKeygen /\ [][NextKeygen]_vars

(***************************************************************************)
(* Vocabulary of the properties.                                           *)
(***************************************************************************)
Returned == pc = "returned"

Exchanges == 1..Len(sent)

Ins(k) == sent[k][2]

CountIns(ins) == Cardinality({k \in Exchanges : Ins(k) = ins})

\* The three-way reading of a status word: [0x90, 0x00] is Success,
\* [0x61, n] is MoreData, every other value is a Failure.
Failure(sw) == sw # SW_SUCCESS /\ sw[1] # 97

CurKey == <<encode_utf8(Data(cur).username), encode_utf8(Data(cur).address)>>

\* The read that has just returned found the record of its key as
\* store_data left it, was authorised, and got the applet's regular answer
\* to every exchange.
ServedRead ==
    /\ Returned
    /\ op = "read"
    /\ initCause = "ok"
    /\ regular
    /\ HasRecord(devStore, CurKey)
    /\ RecordOf(devStore, CurKey) = encode_utf8(Data(cur).message)

RoundTripNonEmpty ==
    (ServedRead /\ Data(cur).message # <<>>) => result = RetStr(Data(cur).message)

RoundTripNonEmptyWitness ==
    /\ ServedRead
    /\ Len(RecordOf(devStore, CurKey)) = 2 * chunk_size + 1
    /\ result = RetStr(Data(cur).message)

(***************************************************************************)
(* C2.  A store in which every exchange returns Success sends exactly      *)
(* ceil(L / chunk_size) STORE CONTINUE commands, L the length of the       *)
(* encoded message: 0 for L = 0, c for L = c * chunk_size and for          *)
(* L = c * chunk_size - 1, c + 1 for L = c * chunk_size + 1.               *)
(***************************************************************************)
AllSuccess == \A k \in Exchanges : statuses[k] = SW_SUCCESS

C2_ContinueCount ==
    (Returned /\ op = "store" /\ AllSuccess)
        => CountIns(INS_STORE_DATA_CONTINUE)
             = (Len(message_bytes) + chunk_size - 1) \div chunk_size

C2_Witness ==
    /\ Returned
    /\ op = "store"
    /\ AllSuccess
    /\ Len(message_bytes) = 2 * chunk_size
    /\ CountIns(INS_STORE_DATA_CONTINUE) = 2
    /\ result = RetTrue

(***************************************************************************)
(* C3.  Once an INIT or CONTINUE exchange of a call has returned a Failure *)
(* status, that exchange is the last one of the call: no CONTINUE or       *)
(* FINALIZE follows, nothing is sent again, and the call has returned      *)
(* False (store) or None (read).                                           *)
(***************************************************************************)
IsInitOrContinue(k) ==
    Ins(k) \in {INS_STORE_DATA_INIT, INS_STORE_DATA_CONTINUE,
                INS_READ_DATA_INIT, INS_READ_DATA_CONTINUE}

C3_AbortOnFailure ==
    \A k \in Exchanges :
        (IsInitOrContinue(k) /\ Failure(statuses[k]))
            => /\ k = Len(sent)
               /\ Returned
               /\ result = IF op = "store" THEN RetFalse ELSE RetNone

\* The same for the statuses whose first byte is not 0x90.
AbortOnFailureNot90 ==
    \A k \in Exchanges :
        (IsInitOrContinue(k) /\ Failure(statuses[k]) /\ statuses[k][1] # 144)
            => /\ k = Len(sent)
               /\ Returned
               /\ result = IF op = "store" THEN RetFalse ELSE RetNone

(***************************************************************************)
(* C4.  A CONTINUE or FINALIZE command is on the wire only after the INIT  *)
(* of the same call has returned Success, [0x90, 0x00].                    *)
(***************************************************************************)
C4_InitBeforeContinue ==
    \A k \in Exchanges :
        IF k = 1
        THEN Ins(k) \in {INS_STORE_DATA_INIT, INS_READ_DATA_INIT}
        ELSE /\ Ins(k) \notin {INS_STORE_DATA_INIT, INS_READ_DATA_INIT}
             /\ statuses[1] = SW_SUCCESS

(***************************************************************************)
(* C5.  The client takes the Success branch only on [0x90, 0x00], the      *)
(* MoreData branch only on a status whose first byte is 0x61, and the      *)
(* Failure branch on every other status; after a Failure branch nothing    *)
(* more is sent.                                                           *)
(***************************************************************************)
C5_Classification ==
    \A k \in Exchanges :
        /\ outcomes[k] = "success" => statuses[k] = SW_SUCCESS
        /\ outcomes[k] = "more" => statuses[k][1] = 97
        /\ Failure(statuses[k]) => outcomes[k] = "failure"
        /\ outcomes[k] = "failure" => k = Len(sent)

(***************************************************************************)
(* C6.  No READ CONTINUE command is sent once the bytes received so far    *)
(* are as many as the total length the INIT response reported.             *)
(***************************************************************************)
C6_DualTermination ==
    [][ (Len(sent') = Len(sent) + 1
            /\ sent'[Len(sent')][2] = INS_READ_DATA_CONTINUE)
          => Len(message_data) < message_length ]_vars

(***************************************************************************)
(* C7.  A read whose INIT, or one of whose CONTINUEs, returned a Failure   *)
(* status returns None: no payload, complete or partial.                   *)
(***************************************************************************)
C7_NoPayloadOnFailure ==
    (/\ Returned
     /\ op = "read"
     /\ \E k \in Exchanges :
            /\ Ins(k) \in {INS_READ_DATA_INIT, INS_READ_DATA_CONTINUE}
            /\ Failure(statuses[k]))
        => result = RetNone

\* The same for the statuses whose first byte is not 0x90.
NoPayloadOnFailureNot90 ==
    (/\ Returned
     /\ op = "read"
     /\ \E k \in Exchanges :
            /\ Ins(k) \in {INS_READ_DATA_INIT, INS_READ_DATA_CONTINUE}
            /\ Failure(statuses[k])
            /\ statuses[k][1] # 144)
        => result = RetNone

(***************************************************************************)
(* C8.  Two reads of the same key with the same signature, one rejected at *)
(* INIT because the record does not exist and the other because the        *)
(* signature does not verify, put the same commands on the wire and return *)
(* the same value.                                                         *)
(***************************************************************************)
RejectedRead == Returned /\ op = "read" /\ initCause \in {"absent", "badsig"}

C8_SameObservation ==
    (/\ RejectedRead
     /\ firstRej.cause \in {"absent", "badsig"}
     /\ firstRej.cause # initCause
     /\ firstRej.cur = cur
     /\ firstRej.signature = signature)
        => /\ firstRej.sent = sent
           /\ firstRej.result = result

C8_Witness ==
    /\ RejectedRead
    /\ initCause = "badsig"
    /\ firstRej.cause = "absent"
    /\ firstRej.cur = cur
    /\ firstRej.signature = signature
    /\ firstRej.sent = sent
    /\ result = RetNone

(***************************************************************************)
(* C9.  A read that has collected the whole message and whose FINALIZE     *)
(* returns a status other than Success still returns the message.          *)
(***************************************************************************)
FinalizeNotSuccess ==
    /\ Returned
    /\ op = "read"
    /\ Ins(Len(sent)) = INS_READ_DATA_FINALIZE
    /\ statuses[Len(sent)] # SW_SUCCESS

C9_FinalizeAdvisory ==
    (FinalizeNotSuccess /\ message_data = encode_utf8(Data(cur).message))
        => result = RetStr(Data(cur).message)

C9_Witness ==
    /\ FinalizeNotSuccess
    /\ regular
    /\ Len(message_data) = 2 * chunk_size + 1
    /\ message_data = encode_utf8(Data(cur).message)
    /\ result = RetStr(Data(cur).message)

(***************************************************************************)
(* C10.  A read whose INIT returns Success with fewer than two bytes of    *)
(* response consists of that one exchange and returns None.                *)
(***************************************************************************)
ShortInitResponse ==
    /\ op = "read"
    /\ Len(sent) >= 1
    /\ statuses[1] = SW_SUCCESS
    /\ respLens[1] < 2

C10_MalformedInit ==
    ShortInitResponse => (Len(sent) = 1 /\ Returned /\ result = RetNone)

C10_Witness ==
    /\ ShortInitResponse
    /\ respLens[1] = 1
    /\ Returned
    /\ result = RetNone

(***************************************************************************)
(* C11.  A read whose INIT reports a total length of 0 sends no READ       *)
(* CONTINUE, goes straight to READ FINALIZE and returns the empty message. *)
(***************************************************************************)
ZeroLengthRead ==
    /\ Returned
    /\ op = "read"
    /\ statuses[1] = SW_SUCCESS
    /\ respLens[1] >= 2
    /\ message_length = 0

C11_ZeroLengthRead ==
    ZeroLengthRead
        => /\ CountIns(INS_READ_DATA_CONTINUE) = 0
           /\ Ins(Len(sent)) = INS_READ_DATA_FINALIZE
           /\ result = RetStr(<<>>)

(***************************************************************************)
(* C12.  On the connection one transfer is under way at a time: an INIT    *)
(* goes out only when no call is in progress, every other command belongs  *)
(* to the call in progress, and each step sends at most one command, whose *)
(* status is back before the next one goes out.                            *)
(***************************************************************************)
InitIns == {INS_STORE_DATA_INIT, INS_READ_DATA_INIT}

FamilyOf(ins) ==
    IF ins \in {INS_STORE_DATA_INIT, INS_STORE_DATA_CONTINUE,
                INS_STORE_DATA_FINALIZE}
    THEN "store" ELSE "read"

C13_DeleteFrame ==
    [][ call'.op = "read"
          => /\ call'.key \in deleted => call'.result = RetNone
             /\ (call'.result.tag = "bytes" /\ seen[call'.key] # NoPayload)
                   => call'.result.val = seen[call'.key] ]_vars

C13_Witness ==
    /\ call.op = "read"
    /\ call.key = 2
    /\ deleted = {1}
    /\ ~HasRecord(card_records, FixedKeyBytes[1])
    /\ call.result = RetBytes(encode_utf8(test_message2))

(***************************************************************************)
(* C14.  Fixed-length client: for a message m of at most 32 bytes, what    *)
(* read_data makes of pad_data(m, 32) is m exactly when m does not end in  *)
(* a zero byte; otherwise it is m cut short of its trailing zero bytes.    *)
(***************************************************************************)
EndsInZero(bytes) == bytes # <<>> /\ bytes[Len(bytes)] = 0

C14_PadStripRoundTrip ==
    (call.op = "read" /\ call.result.tag = "bytes")
        => \A m \in FixedMessages :
              LET b == encode_utf8(m) IN
              (/\ Len(b) <= MESSAGE_LENGTH
               /\ HasRecord(card_records, FixedKeyBytes[call.key])
               /\ RecordOf(card_records, FixedKeyBytes[call.key])
                     = PaddedMessage[m])
                 => /\ call.result.val = b <=> ~EndsInZero(b)
                    /\ EndsInZero(b)
                         => /\ call.result.val = rstrip_zero(b)
                            /\ Len(call.result.val) < Len(b)

C14_Witness ==
    /\ call.op = "read"
    /\ call.key = 1
    /\ HasRecord(card_records, FixedKeyBytes[1])
    /\ RecordOf(card_records, FixedKeyBytes[1]) = PaddedMessage[<<65, 0>>]
    /\ call.result = RetBytes(<<65>>)

(***************************************************************************)
(* C15.  A call that succeeded sent INIT, then only CONTINUEs, then one    *)
(* FINALIZE; a FINALIZE is the last command of its call.                   *)
(***************************************************************************)
SuccessfulCall == Returned /\ result.tag \in {"True", "str"}

InitOf(o) ==
    IF o = "store" THEN INS_STORE_DATA_INIT ELSE INS_READ_DATA_INIT

ContinueOf(o) ==
    IF o = "store" THEN INS_STORE_DATA_CONTINUE ELSE INS_READ_DATA_CONTINUE

FinalizeOf(o) ==
    IF o = "store" THEN INS_STORE_DATA_FINALIZE ELSE INS_READ_DATA_FINALIZE

RECURSIVE ChunksFrom(_)
ChunksFrom(k) ==
    IF k > Len(sent) THEN <<>>
    ELSE (IF Ins(k) = INS_STORE_DATA_CONTINUE THEN CmdData(sent[k]) ELSE <<>>)
           \o ChunksFrom(k + 1)

StoreContinues == {k \in Exchanges : Ins(k) = INS_STORE_DATA_CONTINUE}

C16_ChunksInOrder ==
    op = "store"
        => LET all == ChunksFrom(1) IN
           /\ Len(all) <= Len(message_bytes)
           /\ all = SubSeq(message_bytes, 1, Len(all))
           /\ result = RetTrue => all = message_bytes
           /\ \A k \in StoreContinues :
                 LET n == Len(CmdData(sent[k])) IN
                 /\ Len(sent[k]) = 5 + n
                 /\ n >= 1
                 /\ n <= chunk_size
                 /\ n < chunk_size
                      => (\A j \in StoreContinues : j <= k)
                           /\ Len(all) = Len(message_bytes)

C16_Witness ==
    /\ Returned
    /\ op = "store"
    /\ result = RetTrue
    /\ Len(message_bytes) = 2 * chunk_size + 1
    /\ Cardinality(StoreContinues) = 3
    /\ ChunksFrom(1) = message_bytes

(***************************************************************************)
(* C17.  store_data returns True exactly when its INIT, its CONTINUEs and  *)
(* its FINALIZE all returned [0x90, 0x00]; otherwise it returns False, and *)
(* no chunk is sent a second time.                                         *)
(***************************************************************************)
StoreReturned == Returned /\ op = "store"

C17_StoreSuccessIff ==
    StoreReturned
        => /\ result \in {RetTrue, RetFalse}
           /\ result = RetTrue
                <=> (AllSuccess /\ Ins(Len(sent)) = INS_STORE_DATA_FINALIZE)
           /\ CountIns(INS_STORE_DATA_INIT) = 1
           /\ CountIns(INS_STORE_DATA_FINALIZE) <= 1
           /\ Len(ChunksFrom(1)) <= Len(message_bytes)
           /\ Cardinality(StoreContinues)
                 <= (Len(message_bytes) + chunk_size - 1) \div chunk_size

C17_Witness ==
    /\ StoreReturned
    /\ result = RetFalse
    /\ Len(sent) = 4
    /\ Ins(4) = INS_STORE_DATA_FINALIZE
    /\ statuses[4] # SW_SUCCESS
    /\ \A k \in 1..3 : statuses[k] = SW_SUCCESS

(***************************************************************************)
(* C18.  Every command with data carries at most 255 bytes of it, after a  *)
(* length byte that is their number.                                       *)
(***************************************************************************)
C18_PayloadFitsLc ==
    frame.data # <<>>
        => /\ Len(frame.data) <= 255
           /\ frame.command[5] \in 0..255
           /\ frame.command[5] = Len(frame.data)
           /\ Len(frame.command) = 5 + Len(frame.data)

C20_TransportFailureFatal ==
    [][ /\ (transmit_failed' /\ ~transmit_failed)
            => (pc' = "returned" /\ result' \in {RetFalse, RetNone})
        /\ transmit_failed => Len(sent') <= Len(sent) ]_vars

(***************************************************************************)
(* C21.  Fixed-length client: the payload of every store command is the    *)
(* username in 32 bytes, the address in 64 and the message in 32, each     *)
(* followed by zero bytes up to its width: 128 bytes, the address at       *)
(* offset 32 and the message at offset 96, whatever the message is.        *)
(***************************************************************************)
FieldAt(data, offset, width, bytes) ==
    /\ Len(bytes) <= width
    /\ Len(data) >= offset + width
    /\ SubSeq(data, offset + 1, offset + width)
          = bytes \o [j \in 1..(width - Len(bytes)) |-> 0]

C21_FixedWidthPayload ==
    call.op = "store"
        => LET data == SubSeq(call.command, 6, Len(call.command))
               user == FixedUser(call.key)
           IN /\ Len(data) = USERNAME_LENGTH + ADDR_LENGTH + MESSAGE_LENGTH
              /\ FieldAt(data, 0, USERNAME_LENGTH,
                         encode_utf8(user.username))
              /\ FieldAt(data, USERNAME_LENGTH, ADDR_LENGTH,
                         encode_utf8(user.address))
              /\ FieldAt(data, USERNAME_LENGTH + ADDR_LENGTH, MESSAGE_LENGTH,
                         encode_utf8(call.message))

\* The same for the messages that fit their field.
FixedWidthPayloadWithin ==
    (call.op = "store" /\ Len(encode_utf8(call.message)) <= MESSAGE_LENGTH)
        => C21_FixedWidthPayload

FixedWidthPayloadWithinWitness ==
    /\ call.op = "store"
    /\ call.message = test_message1
    /\ call.result = RetTrue

(***************************************************************************)
(* C22.  Two READ INIT requests that name different (username, address)    *)
(* keys have signed different bytes.                                       *)
(***************************************************************************)
RequestKey(f) == ParseInit(f.data).key

SignedBytes(f) == data_to_sign(RequestKey(f)[1], RequestKey(f)[2])

C22_SignedBytesNameKey ==
    [][ (/\ frame.kind = "read_init"
         /\ frame'.kind = "read_init"
         /\ RequestKey(frame) # RequestKey(frame'))
            => SignedBytes(frame) # SignedBytes(frame') ]_vars

\* The same for two requests whose usernames have one length.
SignedBytesNameKeySameSplit ==
    [][ (/\ frame.kind = "read_init"
         /\ frame'.kind = "read_init"
         /\ RequestKey(frame) # RequestKey(frame')
         /\ Len(RequestKey(frame)[1]) = Len(RequestKey(frame')[1]))
            => SignedBytes(frame) # SignedBytes(frame') ]_vars

(***************************************************************************)
(* C25.  PRIVATE_KEY, once there is one, is never assigned again: not by   *)
(* generate_signature and not while a read is under way.  The signature    *)
(* of the read under way and the signature of the first rejected read of   *)
(* the run are both made with it.                                          *)
(***************************************************************************)
\* The signatures of the key fields of record d of TEST_DATA under each
\* key (the usernames and addresses are those of every TEST_DATA(n)).
SignaturesOf ==
    [key \in KeyIds, d \in Records |->
        LET signed == data_to_sign(encode_utf8(TEST_DATA(0)[d].username),
                                   encode_utf8(TEST_DATA(0)[d].address))
        IN {Sign(key, signed, nonce) : nonce \in Nonces}]

SignedWith(key, d, sig) ==
    key \in KeyIds /\ d \in Records /\ sig \in SignaturesOf[key, d]

C25_KeyStable ==
    [][ /\ PRIVATE_KEY # 0 => PRIVATE_KEY' = PRIVATE_KEY
        /\ (op' = "read" /\ pc' # "idle")
              => /\ PRIVATE_KEY' # 0
                 /\ SignedWith(PRIVATE_KEY', cur', signature')
        /\ firstRej' # NoObservation
              => SignedWith(PRIVATE_KEY', firstRej'.cur,
                            firstRej'.signature) ]_vars

\* A served read after a read that was rejected because the record was
\* not there yet.
C25_Witness ==
    /\ ServedRead
    /\ result.tag = "str"
    /\ firstRej # NoObservation
    /\ firstRej.cause = "absent"
    /\ PRIVATE_KEY = DeviceKey
    /\ SignedWith(PRIVATE_KEY, cur, signature)
    /\ SignedWith(PRIVATE_KEY, firstRej.cur, firstRej.signature)

(***************************************************************************)
(* C23.  The read loop of secure_chip_client.py comes to an end: whatever  *)
(* the card answers, with at least one byte in every MoreData answer, the  *)
(* read returns a payload or a failure.                                    *)
(***************************************************************************)
C23_ReadTerminates ==
    (reader = "secure_chip_client") => <>(loop_result # "pending")

\* The same for the loop of test_applet.py, which counts the bytes.
AppletReadTerminates ==
    (reader = "test_applet") => <>(loop_result # "pending")

(***************************************************************************)
(* C24.  test_applet.py: the Le of every READ CONTINUE command is the      *)
(* smaller of 240 and the bytes still outstanding when it is sent; it is   *)
(* at least 1, at most 240 and at most the bytes outstanding.              *)
(***************************************************************************)
\* This step sent a READ CONTINUE: an answer came in.
AppletExchange == last_sw' # last_sw \/ collected' # collected

C24_ExpectedLen ==
    [][ (reader = "test_applet" /\ AppletExchange)
          => LET hint == loop_command'[5]
                 outstanding == announced - collected
             IN /\ Len(loop_command') = 5
                /\ loop_command'[2] = INS_READ_DATA_CONTINUE
                /\ hint = Min(240, outstanding)
                /\ hint \in 1..240
                /\ hint <= outstanding ]_vars

\* The second command of a read of 241 bytes asked for the one byte left.
C24_Witness ==
    /\ reader = "test_applet"
    /\ announced = DeviceMaxRead + 1
    /\ collected = DeviceMaxRead + 1
    /\ loop_command = <<CLA, INS_READ_DATA_CONTINUE, 0, 0, 1>>
    /\ loop_result = "payload"

(***************************************************************************)
(* C26.  Key-generation harness: once main has joined every process, the   *)
(* number it prints is the number of parties whose request succeeded, and  *)
(* each of them is in the shared list exactly once.                        *)
(***************************************************************************)
Succeeded == {index \in 1..PARTIES : party[index] = "success"}

C26_ReportedCount ==
    harness_pc = "done"
        => /\ reported = Cardinality(Succeeded)
           /\ \A index \in Succeeded :
                 Cardinality({k \in 1..Len(results) :
                                 results[k].index = index}) = 1

=============================================================================
